---- MODULE Spec2Model ----
(***************************************************************************)
(* sg-to-csv (src/src/main.rs): export every table of a schema to a CSV    *)
(* file, optionally gzip-compressed.  One run of the binary is modelled as *)
(* a state machine whose steps are the await points of main and of         *)
(* dump_table_contents; every fallible call chooses its outcome            *)
(* nondeterministically.                                                   *)
(***************************************************************************)
EXTENDS Integers, Sequences, FiniteSets, TLC

(* ------------------------------ bounds --------------------------------- *)

MaxSchemaLen == 3
MaxTables == 2
MaxChunks == 2

(* ---------------------------- characters ------------------------------- *)

\* A small alphabet: an ASCII letter, an ASCII digit, a non-ASCII letter
\* (e-acute), a non-ASCII decimal digit (ARABIC-INDIC DIGIT THREE) and
\* characters that are not alphanumeric at all: dash, quote, space,
\* semicolon, dot and parenthesis.
Chars == {"a", "7", "U+00E9", "U+0663", "-", "'", " ", ";", ".", "("}

\* char::is_alphanumeric: Unicode Alphabetic, or a Unicode number (Nd, Nl, No).
is_alphanumeric(c) == c \in {"a", "7", "U+00E9", "U+0663"}

\* A validator that accepts every name.
validate_any(val) == TRUE

\* val.chars().all(char::is_alphanumeric)
validate_schema(val) == \A i \in 1..Len(val) : is_alphanumeric(val[i])

\* Every string over Chars of length at most n.
Strings(n) == UNION {[1..k -> Chars] : k \in 0..n}

\* The schema arguments a run of the whole pipeline is started with.
SchemaArgs ==
  {<<>>, <<"a", "7">>, <<"U+00E9">>, <<"-">>, <<"a", "-">>, <<"'">>,
   <<"a", ";">>, <<" ", "a">>, <<"a", ".">>, <<"(">>}

(* --------------------------- the database ------------------------------ *)

TableNames == {<<"t">>, <<"u">>, <<"t", ".", "g", "z">>}

\* One catalog entry: a table and the number of chunks its COPY yields.
Entries == [name : TableNames, rows : 0..MaxChunks]

\* pg_tables holds each table name of a schema once.
Catalogs ==
  {c \in UNION {[1..n -> Entries] : n \in 0..MaxTables} :
     \A i, j \in 1..Len(c) : c[i].name = c[j].name => i = j}

\* The row stream of a table: its chunks, each one distinct.
RowStream(e) == [i \in 1..e.rows |-> <<e.name, i>>]

NoRow == <<>>

(* ------------------------------ helpers -------------------------------- *)

\* let ext = if no_compression { "csv" } else { "csv.gz" };
Ext(nc) == IF nc THEN <<"c", "s", "v">> ELSE <<"c", "s", "v", ".", "g", "z">>

\* Path with the two extensions exchanged.
PathSwappedExt(s, t, nc) == s \o <<"_">> \o t \o <<".">> \o Ext(~nc)

\* format!("{}_{}.{}", schema_name, table_name, ext)
Path(s, t, nc) == s \o <<"_">> \o t \o <<".">> \o Ext(nc)

\* format!("SELECT tablename FROM pg_tables WHERE schemaname = '{}'", schema_name)
TablesQuery(s) ==
  <<"SELECT tablename FROM pg_tables WHERE schemaname = ", "'">> \o s \o <<"'">>

\* format!("COPY (select * from {}.{} order by vid) TO STDOUT WITH (FORMAT CSV, HEADER)",
\*         schema_name, table_name)
CopyQuery(s, t) ==
  <<"COPY (select * from ">> \o s \o <<".">> \o t \o
    <<" order by vid) TO STDOUT WITH (FORMAT CSV, HEADER)">>

\* Whether the file writer is wrapped in a GzipEncoder.
Wrapped(nc) == ~nc

\* Create that opens an existing file for appending.
CreateAppend(fs, p, gz) ==
  [q \in DOMAIN fs \cup {p} |->
     IF q = p /\ p \notin DOMAIN fs
       THEN [gz |-> gz, data |-> <<>>, trailer |-> FALSE]
       ELSE fs[q]]

\* fs.writer(&path): the file exists from now on and is empty.
Create(fs, p, gz) ==
  [q \in DOMAIN fs \cup {p} |->
     IF q = p THEN [gz |-> gz, data |-> <<>>, trailer |-> FALSE] ELSE fs[q]]

\* Drop that releases nothing.
DropLeak(st) == st

\* A value going out of scope: an open sink or stream is released, nothing
\* is flushed or finalized.
Drop(st) == IF st = "open" THEN "dropped" ELSE st

\* Try that goes on after an Err.
TryIgnore(ok, cont) == cont

\* The ? operator: continue on Ok, leave main with the error on Err.
Try(ok, cont) == IF ok THEN cont ELSE "failed"

\* ArgsParse without the validator attribute on the schema argument.
ArgsParseUnchecked(val) == "connect"

\* Args::parse() runs the validator of the schema argument and exits the
\* process when it rejects.
ArgsParse(val) == IF validate_schema(val) THEN "connect" ELSE "failed"

\* The for loop over the rows of the catalog query.
HasNext(i, ts) == i <= Len(ts)

\* LoopExit that treats a schema without tables as an error.
LoopExitEmptyIsError(ts) == IF ts = <<>> THEN "failed" ELSE "done"

\* main's value once the loop is over: Ok(()).
LoopExit(ts) == "done"

\* Accept that loses the chunk.
AcceptSkip(w, r) == w

\* writer.write_all(&row): the chunk is appended to what the writer was given.
Accept(w, r) == Append(w, r)

\* What a successful write_all leaves in the file and in the encoder.
\* The plain writer passes the chunk on.  The GzipEncoder takes the chunk
\* into its own state and hands the file what it holds beyond the l most
\* recent chunks: its output is a function of its input, and how much it
\* holds back (l) is a property of the compressor and the data.
WriteOutcome(f, buf, r, l) ==
  IF f.gz
    THEN LET b == Append(buf, r)
             j == IF Len(b) > l THEN Len(b) - l ELSE 0
         IN
         [file |-> [f EXCEPT !.data = @ \o SubSeq(b, 1, j)],
          buf |-> SubSeq(b, j + 1, Len(b))]
    ELSE [file |-> [f EXCEPT !.data = Append(@, r)], buf |-> buf]

(* ------------------------------- state --------------------------------- *)

VARIABLES
  schema,          \* args.schema
  no_compression,  \* args.no_compression
  catalog,         \* what the database holds for the schema
  old,             \* whether the output directory holds an earlier export
  lag,             \* how many chunks a GzipEncoder holds back
  first,           \* how the run before this one ended, NoRun if there was none
  pc,              \* where main is
  valid,           \* the validator's answer: "unknown", "ok", "err"
  err,             \* the error main ended with, "none" if none
  nValidate,       \* calls of validate_schema
  nConnect,        \* connection attempts
  nQuery,          \* catalog queries issued
  nOpen,           \* fs.writer calls
  nPrepare,        \* client.prepare calls
  nWrite,          \* write_all calls
  connTask,        \* the spawned connection task: "none", "running", "logged"
  tables,          \* the rows of the catalog query
  idx,             \* the loop's position in tables
  jobs,            \* one record per call of dump_table_contents
  row,             \* the chunk read and not yet written
  encBuf,          \* chunks the current GzipEncoder holds back
  files            \* the output directory: path -> file

vars ==
  <<schema, no_compression, catalog, old, lag, first, pc, valid, err, nValidate, nConnect,
    nQuery, nOpen, nPrepare, nWrite, connTask, tables, idx, jobs, row,
    encBuf, files>>

inputs == <<schema, no_compression, catalog, old, lag, first>>

counters == <<nValidate, nConnect, nQuery, nOpen, nPrepare, nWrite>>

NoFiles == [p \in {} |-> [gz |-> FALSE, data |-> <<>>, trailer |-> FALSE]]

\* A file an earlier export of table t left behind: other bytes, complete.
OldFile(gz) == [gz |-> gz, data |-> <<<<"old", 0>>>>, trailer |-> gz]

\* The output directory when the run starts.
InitialFiles ==
  IF old
    THEN [p \in {Path(schema, catalog[i].name, no_compression) :
                    i \in 1..Len(catalog)} |-> OldFile(Wrapped(no_compression))]
    ELSE NoFiles

Terminal == pc \in {"done", "failed"}

NoRun == [pc |-> "none"]

\* What an encoder may hold back: nothing when there is no encoder.
Lags(nc) == IF nc THEN {0} ELSE 0..MaxChunks

\* The job main is in.
Cur == Len(jobs)

InitRun ==
  /\ pc = "parse"
  /\ valid = "unknown"
  /\ err = "none"
  /\ nValidate = 0
  /\ nConnect = 0
  /\ nQuery = 0
  /\ nOpen = 0
  /\ nPrepare = 0
  /\ nWrite = 0
  /\ connTask = "none"
  /\ tables = <<>>
  /\ idx = 1
  /\ jobs = <<>>
  /\ row = NoRow
  /\ encBuf = <<>>
  /\ files = InitialFiles

Init ==
  /\ schema \in SchemaArgs
  /\ no_compression \in BOOLEAN
  /\ catalog \in Catalogs
  /\ old \in BOOLEAN
  /\ lag \in Lags(no_compression)
  /\ first = NoRun
  /\ InitRun

(* ------------------------------ actions -------------------------------- *)

\* main, line 39: Args::parse(), which calls validate_schema on the schema.
Parse ==
  /\ pc = "parse"
  /\ nValidate' = nValidate + 1
  /\ valid' = IF validate_schema(schema) THEN "ok" ELSE "err"
  /\ err' = IF validate_schema(schema) THEN err ELSE "InvalidIdentifier"
  /\ pc' = ArgsParse(schema)
  /\ UNCHANGED <<inputs, nConnect, nQuery, nOpen, nPrepare, nWrite, connTask,
                 tables, idx, jobs, row, encBuf, files>>

\* main, lines 48-55: connect, then spawn the task that drives the connection.
Connect ==
  /\ pc = "connect"
  /\ \E ok \in BOOLEAN :
       /\ nConnect' = nConnect + 1
       /\ connTask' = IF ok THEN "running" ELSE connTask
       /\ err' = IF ok THEN err ELSE "ConnectionError"
       /\ pc' = Try(ok, "fs")
  /\ UNCHANGED <<inputs, valid, nValidate, nQuery, nOpen, nPrepare, nWrite,
                 tables, idx, jobs, row, encBuf, files>>

\* main, lines 58-62: build the filesystem operator.
BuildFs ==
  /\ pc = "fs"
  /\ \E ok \in BOOLEAN :
       /\ err' = IF ok THEN err ELSE "IoError"
       /\ pc' = Try(ok, "query")
  /\ UNCHANGED <<inputs, valid, counters, connTask, tables, idx, jobs, row,
                 encBuf, files>>

\* main, lines 66-70: the catalog query.
Query ==
  /\ pc = "query"
  /\ \E ok \in BOOLEAN :
       /\ nQuery' = nQuery + 1
       /\ tables' = IF ok THEN [i \in 1..Len(catalog) |-> catalog[i].name]
                          ELSE tables
       /\ err' = IF ok THEN err ELSE "CatalogQueryFailed"
       /\ pc' = Try(ok, "loop")
  /\ UNCHANGED <<inputs, valid, nValidate, nConnect, nOpen, nPrepare, nWrite,
                 connTask, idx, jobs, row, encBuf, files>>

\* main, lines 73-76, and dump_table_contents, lines 89-98: the next table,
\* its path, its file writer and the writer's wrapping.
OpenSink ==
  /\ pc = "loop"
  /\ HasNext(idx, tables)
  /\ \E ok \in BOOLEAN :
       LET p == Path(schema, tables[idx], no_compression)
           gz == Wrapped(no_compression)
       IN
       /\ nOpen' = nOpen + 1
       /\ jobs' = Append(jobs,
                    [table |-> tables[idx], path |-> p, gz |-> gz,
                     sink |-> IF ok THEN "open" ELSE "none",
                     stream |-> "none", nread |-> 0, written |-> <<>>,
                     result |-> IF ok THEN "running" ELSE "err"])
       /\ files' = IF ok THEN Create(files, p, gz) ELSE files
       /\ err' = IF ok THEN err ELSE "SinkOpenFailed"
       /\ pc' = Try(ok, "prepare")
  /\ UNCHANGED <<inputs, valid, nValidate, nConnect, nQuery, nPrepare, nWrite,
                 connTask, tables, idx, row, encBuf>>

\* dump_table_contents returns: its result, and writer and stream go out of
\* scope.
ExitJob(j, res) ==
  [j EXCEPT !.result = res, !.sink = Drop(@), !.stream = Drop(@)]

\* dump_table_contents, line 106: client.prepare(&copy_query).
Prepare ==
  /\ pc = "prepare"
  /\ \E ok \in BOOLEAN :
       /\ nPrepare' = nPrepare + 1
       /\ jobs' = IF ok THEN jobs
                        ELSE [jobs EXCEPT ![Cur] = ExitJob(@, "err")]
       /\ err' = IF ok THEN err ELSE "QueryFailed"
       /\ pc' = Try(ok, "copy_out")
  /\ UNCHANGED <<inputs, valid, nValidate, nConnect, nQuery, nOpen, nWrite,
                 connTask, tables, idx, row, encBuf, files>>

\* dump_table_contents, line 107: client.copy_out(&stmt).
CopyOut ==
  /\ pc = "copy_out"
  /\ \E ok \in BOOLEAN :
       /\ jobs' = IF ok THEN [jobs EXCEPT ![Cur].stream = "open"]
                        ELSE [jobs EXCEPT ![Cur] = ExitJob(@, "err")]
       /\ err' = IF ok THEN err ELSE "QueryFailed"
       /\ pc' = Try(ok, "next")
  /\ UNCHANGED <<inputs, valid, counters, connTask, tables, idx, row, encBuf,
                 files>>

\* dump_table_contents, lines 111-112: copy_stmt_stream.next() yields a chunk,
\* yields an error, or ends; at the end the function returns Ok(()).
NextRow ==
  /\ pc = "next"
  /\ LET s == RowStream(catalog[Cur])
         n == jobs[Cur].nread
     IN
     \/ /\ n < Len(s)
        /\ row' = s[n + 1]
        /\ jobs' = [jobs EXCEPT ![Cur].nread = n + 1]
        /\ pc' = "write"
        /\ UNCHANGED <<err, idx, encBuf>>
     \/ /\ jobs' = [jobs EXCEPT ![Cur] = ExitJob(@, "err")]
        /\ err' = "StreamError"
        /\ encBuf' = <<>>
        /\ pc' = Try(FALSE, "write")
        /\ UNCHANGED <<row, idx>>
     \/ /\ n = Len(s)
        /\ jobs' = [jobs EXCEPT ![Cur] = ExitJob(@, "ok")]
        /\ encBuf' = <<>>
        /\ idx' = idx + 1
        /\ pc' = "loop"
        /\ UNCHANGED <<row, err>>
  /\ UNCHANGED <<inputs, valid, counters, connTask, tables, files>>

\* dump_table_contents, line 113: writer.write_all(&row).
WriteAll ==
  /\ pc = "write"
  /\ \E ok \in BOOLEAN :
       LET p == jobs[Cur].path IN
       /\ nWrite' = nWrite + 1
       /\ row' = NoRow
       /\ IF ok
            THEN /\ jobs' = [jobs EXCEPT ![Cur].written = Accept(@, row)]
                 /\ LET o == WriteOutcome(files[p], encBuf, row, lag) IN
                      /\ files' = [files EXCEPT ![p] = o.file]
                      /\ encBuf' = o.buf
            ELSE /\ jobs' = [jobs EXCEPT ![Cur] = ExitJob(@, "err")]
                 /\ encBuf' = <<>>
                 /\ files' = files
       /\ err' = IF ok THEN err ELSE "IoError"
       /\ pc' = Try(ok, "next")
  /\ UNCHANGED <<inputs, valid, nValidate, nConnect, nQuery, nOpen, nPrepare,
                 connTask, tables, idx>>

\* main, line 79: the loop is over.
Finish ==
  /\ pc = "loop"
  /\ ~HasNext(idx, tables)
  /\ pc' = LoopExit(tables)
  /\ UNCHANGED <<inputs, valid, err, counters, connTask, tables, idx, jobs,
                 row, encBuf, files>>

\* A monitor that ends the process when the connection fails.
ConnMonitorAborts ==
  /\ connTask = "running"
  /\ ~Terminal
  /\ connTask' = "logged"
  /\ pc' = "failed"
  /\ err' = "ConnectionError"
  /\ UNCHANGED <<inputs, valid, counters, tables, idx, jobs, row, encBuf,
                 files>>

\* main, lines 51-55: the spawned task sees the connection end with an error
\* and prints it.
ConnMonitor ==
  /\ connTask = "running"
  /\ ~Terminal
  /\ connTask' = "logged"
  /\ UNCHANGED <<inputs, pc, valid, err, counters, tables, idx, jobs, row,
                 encBuf, files>>

Next ==
  \/ Parse
  \/ Connect
  \/ BuildFs
  \/ Query
  \/ OpenSink
  \/ Prepare
  \/ CopyOut
  \/ NextRow
  \/ WriteAll
  \/ Finish
  \/ ConnMonitor

Spec == Init /\ [][Next]_vars

\* The steps of main itself: every one is an await that returns.
MainStep ==
  \/ Parse
  \/ Connect
  \/ BuildFs
  \/ Query
  \/ OpenSink
  \/ Prepare
  \/ CopyOut
  \/ NextRow
  \/ WriteAll
  \/ Finish

\* Every I/O step main waits for returns in the end; the connection may or
\* may not ever fail.
SpecLive == Spec /\ WF_vars(MainStep)

(* ---------------- the validator alone, on every string ----------------- *)

InitValidate ==
  /\ schema \in Strings(MaxSchemaLen)
  /\ no_compression = FALSE
  /\ catalog = <<>>
  /\ old = FALSE
  /\ lag = 0
  /\ first = NoRun
  /\ InitRun

NextValidate == Parse

SpecValidate == InitValidate /\ [][NextValidate]_vars

(* ----------------------- running the binary again ---------------------- *)

\* The process has ended and the binary is started once more on the same
\* schema, database and output directory, with compression flag nc; the
\* files the run before left behind are still there.
Rerun(nc, l) ==
  /\ Terminal
  /\ first = NoRun
  /\ first' = [pc |-> pc, no_compression |-> no_compression, files |-> files]
  /\ no_compression' = nc
  /\ lag' = l
  /\ pc' = "parse"
  /\ valid' = "unknown"
  /\ err' = "none"
  /\ nValidate' = 0
  /\ nConnect' = 0
  /\ nQuery' = 0
  /\ nOpen' = 0
  /\ nPrepare' = 0
  /\ nWrite' = 0
  /\ connTask' = "none"
  /\ tables' = <<>>
  /\ idx' = 1
  /\ jobs' = <<>>
  /\ row' = NoRow
  /\ encBuf' = <<>>
  /\ UNCHANGED <<schema, catalog, old, files>>

\* The same command line again.
RerunSame == Rerun(no_compression, lag)

NextRerun ==
  \/ Next
  \/ RerunSame

InitRerun ==
  /\ Init
  /\ schema = <<"a", "7">>
  /\ ~old

SpecRerun == InitRerun /\ [][NextRerun]_vars

\* A run with --no-compression, then a run without it.
RerunCompressed ==
  /\ no_compression
  /\ \E l \in Lags(FALSE) : Rerun(FALSE, l)

InitPair ==
  /\ Init
  /\ schema = <<"a", "7">>
  /\ no_compression
  /\ ~old

NextPair ==
  \/ Next
  \/ RerunCompressed

SpecPair == InitPair /\ [][NextPair]_vars

(* ------------------------------ claims --------------------------------- *)

\* A-Z, a-z, 0-9.
IsAsciiAlphanumeric(c) == c \in {"a", "7"}

AllAsciiAlphanumeric(val) == \A i \in 1..Len(val) : IsAsciiAlphanumeric(val[i])

EndsWith(p, suf) ==
  /\ Len(p) >= Len(suf)
  /\ SubSeq(p, Len(p) - Len(suf) + 1, Len(p)) = suf

DotCsv == <<".", "c", "s", "v">>

DotCsvGz == <<".", "c", "s", "v", ".", "g", "z">>

\* C1: validate_schema returns success if and only if every character of
\* the name is an ASCII alphanumeric; otherwise it returns an error.
C1_AcceptsIffAscii ==
  valid # "unknown" =>
    /\ (valid = "ok") <=> AllAsciiAlphanumeric(schema)
    /\ (valid = "err") <=> (err = "InvalidIdentifier")

\* C2: a job whose row stream was exhausted without an error has finalized its
\* compression sink (trailer written) and then closed its storage sink before
\* dump_table_contents reports success.
C2_FinalizedThenClosed ==
  \A k \in 1..Len(jobs) :
    jobs[k].result = "ok" =>
      /\ jobs[k].sink = "closed"
      /\ jobs[k].gz => files[jobs[k].path].trailer

\* C3: fail-fast. A step that fails puts the run in the terminal failed state
\* in that same step, and from the failed state nothing happens any more: no
\* retry, no sink opened, no chunk written for a later table.
C3_FailFast ==
  [][/\ err' # "none" => pc' = "failed"
     /\ (\E k \in 1..Len(jobs') : jobs'[k].result = "err") => pc' = "failed"
     /\ pc = "failed" => UNCHANGED vars]_vars

C3_Witness ==
  /\ pc = "failed"
  /\ Cur >= 1
  /\ Cur < Len(tables)
  /\ jobs[Cur].result = "err"
  /\ err \in {"StreamError", "IoError", "QueryFailed"}

\* C4: what a job has written into its wrapped sink is the prefix of its row
\* stream read so far, chunk by chunk, unmodified and in order (the chunk in
\* hand between the read and its write being the only one read and not yet
\* written); a job that succeeded has written the whole row stream.
C4_WrittenIsPrefixRead ==
  \A k \in 1..Len(jobs) :
    LET j == jobs[k]
        s == RowStream(catalog[k])
    IN
    /\ j.table = catalog[k].name
    /\ j.nread <= Len(s)
    /\ Len(j.written) <= j.nread
    /\ j.written = SubSeq(s, 1, Len(j.written))
    /\ j.result = "running" =>
         IF pc = "write"
           THEN /\ j.nread = Len(j.written) + 1
                /\ row = s[j.nread]
           ELSE j.nread = Len(j.written)
    /\ j.result = "err" => j.nread <= Len(j.written) + 1
    /\ j.result = "ok" => j.written = s

C4_Witness ==
  \E k \in 1..Len(jobs) :
    /\ jobs[k].result = "ok"
    /\ Len(jobs[k].written) >= 2
    /\ jobs[k].written[1] # jobs[k].written[2]

\* C5: at most one job holds an open sink or an open row stream, and every
\* job before the current one has completed and released both.
C5_OneJobAtATime ==
  /\ Cardinality({k \in 1..Len(jobs) :
                    jobs[k].sink = "open" \/ jobs[k].stream = "open"}) <= 1
  /\ \A k \in 1..Len(jobs) :
       k < Cur =>
         /\ jobs[k].result = "ok"
         /\ jobs[k].sink = "dropped"
         /\ jobs[k].stream = "dropped"

C5_Witness ==
  /\ Cur = 2
  /\ jobs[2].sink = "open"
  /\ jobs[2].stream = "open"
  /\ jobs[1].written # <<>>

\* C6: a run that succeeds has opened exactly one file per table and no
\* other; the file of table t is {schema}_{t}.csv without compression and
\* {schema}_{t}.csv.gz with it, and it is written through the gzip encoder
\* exactly when its name ends in .csv.gz.
C6_OneFilePerTable ==
  pc = "done" =>
    /\ Len(jobs) = Len(tables)
    /\ nOpen = Len(tables)
    /\ \A k \in 1..Len(jobs) :
         /\ jobs[k].path =
              schema \o <<"_">> \o tables[k] \o
                (IF no_compression THEN DotCsv ELSE DotCsvGz)
         /\ jobs[k].path \in DOMAIN files
         /\ jobs[k].gz <=> EndsWith(jobs[k].path, DotCsvGz)
         /\ files[jobs[k].path].gz = jobs[k].gz
    /\ \A k, l \in 1..Len(jobs) : jobs[k].path = jobs[l].path => k = l
    /\ DOMAIN files =
         DOMAIN InitialFiles \cup {jobs[k].path : k \in 1..Len(jobs)}

C6_Witness ==
  /\ pc = "done"
  /\ Len(tables) = 2
  /\ ~old
  /\ Cardinality(DOMAIN files) = 2

\* C7: when the catalog query returns no table, the run opens no sink,
\* prepares no unload query, writes nothing, and ends in success.
C7_NoTables ==
  (nQuery = 1 /\ err # "CatalogQueryFailed" /\ tables = <<>>) =>
    /\ nOpen = 0
    /\ nPrepare = 0
    /\ nWrite = 0
    /\ jobs = <<>>
    /\ files = InitialFiles
    /\ pc \in {"loop", "done"}
    /\ pc = "loop" => ENABLED Finish

C7_Witness ==
  /\ nQuery = 1
  /\ tables = <<>>
  /\ pc = "done"

\* C8: the schema name is validated exactly once and before any I/O; when the
\* validation fails, the run has failed with no connection made, no catalog
\* query issued and no output file opened.
C8_ValidatedFirst ==
  /\ nValidate <= 1
  /\ pc # "parse" => nValidate = 1
  /\ (nConnect > 0 \/ nQuery > 0 \/ nOpen > 0 \/ connTask # "none"
        \/ files # InitialFiles) =>
       (nValidate = 1 /\ valid = "ok")
  /\ valid = "err" =>
       /\ pc = "failed"
       /\ nConnect = 0
       /\ nQuery = 0
       /\ nOpen = 0
       /\ connTask = "none"
       /\ files = InitialFiles

C8_Witness ==
  /\ valid = "err"
  /\ nValidate = 1
  /\ pc = "failed"

\* C9: when the row stream of a job fails after N chunks were written, the
\* run fails, the job's file still exists and holds those N chunks, and
\* every other file is as it was.
C9_PartialFileKept ==
  [][(err = "none" /\ err' = "StreamError") =>
       LET p == jobs[Cur].path IN
       /\ pc' = "failed"
       /\ jobs' = [jobs EXCEPT ![Cur] = jobs'[Cur]]
       /\ p \in DOMAIN files'
       /\ files'[p].data = jobs'[Cur].written
       /\ \A q \in DOMAIN files \ {p} :
            q \in DOMAIN files' /\ files'[q] = files[q]]_vars

\* C10: a schema name that passed validation, and so every schema name a
\* query is built from, has at least one character.
C10_NeverEmpty ==
  /\ valid = "ok" => Len(schema) >= 1
  /\ nQuery > 0 => Len(schema) >= 1
  /\ nPrepare > 0 => Len(schema) >= 1

\* gunzip of a file: only a stream that was finalized decodes.
Gunzip(f) ==
  IF f.gz /\ f.trailer
    THEN [ok |-> TRUE, data |-> f.data]
    ELSE [ok |-> FALSE, data |-> <<>>]

BothRunsDone == first # NoRun /\ first.pc = "done" /\ pc = "done"

\* C11: round trip. After a successful run without compression and a
\* successful run with it on the same tables and row streams, decompressing
\* the .csv.gz file of a table gives exactly the bytes of its .csv file.
C11_RoundTrip ==
  (BothRunsDone /\ first.no_compression /\ ~no_compression) =>
    \A k \in 1..Len(jobs) :
      LET g == files[jobs[k].path]
          c == files[schema \o <<"_">> \o jobs[k].table \o DotCsv]
      IN
      /\ Gunzip(g).ok
      /\ Gunzip(g).data = c.data

\* C12: idempotence. Two successful runs in succession with the same tables,
\* row streams, output directory and compression flag leave the same files
\* with the same contents after the second run as after the first; a job of
\* the second run starts from an empty file, not from the first run's bytes.
C12_Idempotent ==
  /\ BothRunsDone => files = first.files
  /\ (first # NoRun /\ pc = "prepare") =>
       /\ jobs[Cur].path \in DOMAIN files
       /\ files[jobs[Cur].path].data = <<>>
       /\ ~files[jobs[Cur].path].trailer

C12_Witness ==
  /\ BothRunsDone
  /\ Len(jobs) = 2
  /\ \E q \in DOMAIN files : Len(files[q].data) >= 2
  /\ \E q \in DOMAIN files : files[q].data = <<>>

\* The characters of the alphabet that are not alphanumeric.
NotAlphanumeric == {"-", "'", " ", ";", ".", "("}

Count(seq, x) == Cardinality({i \in 1..Len(seq) : seq[i] = x})

\* C13: a schema name a query text was built from holds no quote,
\* whitespace, semicolon, dot, dash, parenthesis or other non-alphanumeric
\* character: the catalog query has the two quotes of its literal and no
\* other, and in an unload query the name ends at the first dot.
C13_NoEscape ==
  (nQuery > 0 \/ nPrepare > 0) =>
    /\ \A i \in 1..Len(schema) : schema[i] \notin NotAlphanumeric
    /\ Count(TablesQuery(schema), "'") = 2
    /\ \A k \in 1..Len(jobs) :
         LET q == CopyQuery(schema, jobs[k].table) IN
         /\ q[Len(schema) + 2] = "."
         /\ \A i \in 2..(Len(schema) + 1) : q[i] \notin NotAlphanumeric

C13_Witness ==
  /\ nPrepare > 0
  /\ schema = <<"U+00E9">>
  /\ jobs[Cur].table = <<"t", ".", "g", "z">>

\* C14: a job that opened its storage sink and has ended, in success or in
\* failure, has released the sink by finalizing it and then closing it.
C14_ReleasedOnEveryExit ==
  \A k \in 1..Len(jobs) :
    (jobs[k].result \in {"ok", "err"} /\ jobs[k].sink # "none") =>
      /\ jobs[k].sink = "closed"
      /\ jobs[k].gz => files[jobs[k].path].trailer

\* C15: a job opens (and truncates) its output file before it prepares and
\* starts its unload query; when the query cannot be prepared or started,
\* the run has failed and the file is there, empty, whatever an earlier
\* export had left under that name.
C15_OpenBeforePrepare ==
  /\ nPrepare <= Cardinality({k \in 1..Len(jobs) : jobs[k].sink # "none"})
  /\ pc = "prepare" =>
       /\ jobs[Cur].sink = "open"
       /\ jobs[Cur].path \in DOMAIN files
       /\ files[jobs[Cur].path].data = <<>>
  /\ err = "QueryFailed" =>
       /\ pc = "failed"
       /\ jobs[Cur].result = "err"
       /\ jobs[Cur].written = <<>>
       /\ jobs[Cur].path \in DOMAIN files
       /\ files[jobs[Cur].path].data = <<>>
       /\ ~files[jobs[Cur].path].trailer

C15_Witness ==
  /\ err = "QueryFailed"
  /\ old
  /\ nPrepare = 1
  /\ jobs[Cur].stream = "none"
  /\ jobs[Cur].path \in DOMAIN InitialFiles

\* C16: the task that drives the connection only logs: its step changes
\* nothing of the export loop (position, current table, jobs, sinks, chunks
\* written, files, error, outcome).
C16_MonitorOnlyLogs ==
  [][(connTask = "running" /\ connTask' = "logged") =>
       UNCHANGED <<inputs, pc, valid, err, counters, tables, idx, jobs, row,
                   encBuf, files>>]_vars

C16_Witness ==
  /\ connTask = "logged"
  /\ pc = "done"
  /\ Len(jobs) >= 1
  /\ nWrite >= 1

\* Validation, connection and catalog query succeeded and every table the
\* catalog query returned was exported without an error.
Succeeded ==
  /\ valid = "ok"
  /\ err = "none"
  /\ nConnect = 1
  /\ nQuery = 1
  /\ tables = [i \in 1..Len(catalog) |-> catalog[i].name]
  /\ Len(jobs) = Len(catalog)
  /\ \A k \in 1..Len(jobs) :
       /\ jobs[k].table = catalog[k].name
       /\ jobs[k].result = "ok"
       /\ jobs[k].nread = catalog[k].rows

\* C17: every run reaches a terminal state, and the terminal state is
\* success exactly when validation, connection, catalog query and every
\* table's export went without an error; otherwise it is failure.
C17_Terminates ==
  /\ <>Terminal
  /\ [](Terminal => ((pc = "done") <=> Succeeded))
  /\ [](Terminal => ((pc = "failed") <=> (err # "none")))

C17_Witness ==
  /\ pc = "done"
  /\ Len(jobs) = 2
  /\ nWrite >= 2
  /\ Succeeded

====
